---------------------------- MODULE Spec2Model ----------------------------
(***************************************************************************)
(* lochness.box: the verified-download state machine of                    *)
(* src/lochness/box/__init__.py.                                           *)
(*                                                                         *)
(* One process calls save() repeatedly on one remote file object.  The     *)
(* local filesystem (directories, files with their bytes and mode), the    *)
(* remote store, the module configuration and the position of the running  *)
(* call are the state.  Every filesystem or provider call of save, _save,  *)
(* hash_retry, _savetemp and _delete is one step; the fetch, the temp-file *)
(* steps, the rename and the remote delete can each raise.                 *)
(***************************************************************************)
EXTENDS Integers, Sequences, FiniteSets, TLC

\* ------------------------------------------------------------------ bounds
\* Longest remote content, in bytes.
MaxContentLen == 2
\* Number of save calls one behaviour makes.
MaxCalls == 2

\* --------------------------------------------------------------- constants
\* hash_retry(3): the number of attempts of _save.
HashRetryN == 3

\* ------------------------------------------------------------ Python values
\* Python's None, as a key.
PyNone == "<None>"
\* The keys a caller passes: None, the empty string, a passphrase.
Keys == {PyNone, "", "pw"}
\* Python truthiness of a key: `if key` is false for None and for ''.
Truthy(key) == key \notin {PyNone, ""}

\* The remote contents: one byte string of each length 0..MaxContentLen, its
\* bytes alternating 1, 0, 1, ...
Contents == {[i \in 1..n |-> i % 2] : n \in 0..MaxContentLen}
\* No bytes held (a local variable not yet bound).
NoContent == <<-1>>

\* Typed Python values of the configuration: (type name, repr).
PyBool(b) == [type |-> "bool", repr |-> IF b THEN "True" ELSE "False"]
PyStr(s) == [type |-> "str", repr |-> s]
PyInt(s) == [type |-> "int", repr |-> s]
PyNoneVal == [type |-> "NoneType", repr |-> "None"]
\* Python truthiness of a configuration value.
PyTruthy(v) ==
    CASE v.type = "bool" -> v.repr = "True"
      [] v.type = "str" -> v.repr # ""
      [] v.type = "int" -> v.repr # "0"
      [] OTHER -> FALSE

\* dict.get(k, default)
Get(d, k, default) == IF k \in DOMAIN d THEN d[k] ELSE default
EmptyDict == <<>>

\* The module whose configuration is read.
Module == "xnat"

\* --------------------------------------------------------- configuration
\* delete_on_success(Lochness, module_name): the value under
\* Lochness['box'][module_name]['delete_on_success'], False when any level
\* is absent, and False when the value is not a bool.
DeleteOnSuccessTruthy(Lochness, module_name) ==
    LET value == Get(Get(Get(Lochness, "box", EmptyDict), module_name, EmptyDict),
                     "delete_on_success", PyBool(FALSE))
    IN PyTruthy(value)
delete_on_success(Lochness, module_name) ==
    LET value == Get(Get(Get(Lochness, "box", EmptyDict), module_name, EmptyDict),
                     "delete_on_success", PyBool(FALSE))
    IN IF value.type # "bool" THEN FALSE ELSE value.repr = "True"

\* The configurations: every level absent in turn, then each kind of value.
ConfigValues == {PyBool(TRUE), PyBool(FALSE), PyStr("true"), PyInt("1"), PyNoneVal}
Configs ==
    {EmptyDict, [box |-> EmptyDict], [box |-> (Module :> EmptyDict)]}
    \cup {[box |-> (Module :> [delete_on_success |-> v])] : v \in ConfigValues}


\* ------------------------------------------------------------- transforms
\* gzip.GzipFile(mode='wb'): the two magic bytes, the deflated payload, the
\* trailer with the payload's length.
Gzip(s) == <<31, 139>> \o s \o <<Len(s)>>
IsGzip(d) == Len(d) >= 3 /\ d[1] = 31 /\ d[2] = 139 /\ d[Len(d)] = Len(d) - 3
\* gzip.GzipFile(mode='rb'): the payload, or garbage for anything else.
Gunzip(d) == IF IsGzip(d) THEN SubSeq(d, 3, Len(d) - 1) ELSE NoContent

\* cryptease.encrypt(content, key): a header byte derived from the key, then
\* the enciphered bytes.
KeyByte(key) == IF key = "pw" THEN 7 ELSE 9
Encrypt(s, key) == <<KeyByte(key)>> \o [i \in 1..Len(s) |-> 1 - s[i]]
\* cryptease.decrypt: the plaintext, or garbage when the header is not the key's.
Decrypt(d, key) ==
    IF Len(d) >= 1 /\ d[1] = KeyByte(key)
    THEN [i \in 1..(Len(d) - 1) |-> 1 - d[i + 1]]
    ELSE NoContent

RECURSIVE Weigh(_)
Weigh(s) == IF s = <<>> THEN 0 ELSE Head(s) + 1 + 3 * Weigh(Tail(s))
\* hash.DropboxContentHasher().hexdigest(): a digest of the bytes.
ContentHash(s) == <<Len(s), Weigh(s)>>

\* verify(f, content_hash, key, compress), on the bytes of f: TRUE when it
\* returns, FALSE when it raises BoxHashError.
verify(data, content_hash, key, compress) ==
    LET unzipped == IF compress THEN Gunzip(data) ELSE data
        plain == IF Truthy(key) THEN Decrypt(unzipped, key) ELSE unzipped
    IN ContentHash(plain) = content_hash

\* What _save hands to _savetemp: the key branch computes the encrypted
\* stream and then passes the fetched content all the same.
SaveTempArg(content, key) ==
    IF Truthy(key)
    THEN LET _stream == Encrypt(content, key) IN content
    ELSE content

\* The bytes _savetemp writes for `content`.
SaveTempBytes(content, compress) == IF compress THEN Gzip(content) ELSE content

\* ------------------------------------------------------------------ paths
\* A directory is a sequence of components; a file path is a directory and a
\* file name, the name a sequence of pieces that are concatenated.
OutBase == <<"out", "s1">>
BoxPathName == "a.txt"

\* ext = '.lock' if key else ''; ext = ext + '.gz' if compress else ext
ExtSwapped(key, compress) ==
    (IF compress THEN <<".gz">> ELSE <<>>) \o (IF Truthy(key) THEN <<".lock">> ELSE <<>>)
Ext(key, compress) ==
    LET ext == IF Truthy(key) THEN <<".lock">> ELSE <<>>
    IN IF compress THEN ext \o <<".gz">> ELSE ext

\* local_fullfile = os.path.join(out_base, box_path_name + ext)
LocalFullfile(out_base, box_path_name, key, compress) ==
    [dir |-> out_base, name |-> <<box_path_name>> \o Ext(key, compress)]
NoPath == [dir |-> <<>>, name |-> <<>>]

\* tf.NamedTemporaryFile(dir=dirname, prefix='.', delete=False): a name that
\* starts with a dot and is not in use.
TempPath(dirname, n) == [dir |-> dirname, name |-> <<".", ToString(n)>>]
IsTemp(p) == p.name # <<>> /\ p.name[1] = "."

\* os.makedirs(d): d and every missing ancestor.
Ancestors(d) == {SubSeq(d, 1, n) : n \in 1..Len(d)}

\* ------------------------------------------------------------------ state
VARIABLES
    Lochness,        \* the configuration dict
    remote,          \* the remote file: its content, and whether it still exists
    dirs,            \* the local directories
    files,           \* the local files: path -> [data, mode, complete]
    pc,              \* where the running save call stands
    args,            \* the running call's key, compress, delete, dry
    local_fullfile,  \* save's and _save's local_fullfile
    content,         \* _save's content
    tmp_name,        \* _save's tmp_name
    attempts,        \* hash_retry's attempts
    exc,             \* the exception in flight or raised: [type, filename]
    outcome,         \* how the call ended
    fetches,         \* content() calls of the running call
    deletes,         \* delete() calls of the running call
    made,            \* the temp files the running call created
    committed,       \* the running call renamed a temp file into place
    mismatches,      \* attempts of the running call whose temp file verify would reject
    start,           \* dirs, files and remote as the running call found them
    again,           \* the running call repeats the args of a call that saved
    ncalls,          \* save calls made so far
    walk,            \* a walk_from_folder_object generator and its consumer
    lookup,          \* a get_box_object_based_on_name call
    orch,            \* a sync call under net.retry
    procs            \* two processes at save's directory creation

\* The state of save, but for the directories.
saveVars == <<Lochness, remote, files, pc, args, local_fullfile, content,
              tmp_name, attempts, exc, outcome, fetches, deletes, made, committed,
              mismatches, start, again, ncalls>>
\* The state of the other operations.
others == <<walk, lookup, orch, procs>>
vars == <<saveVars, dirs, others>>

\* The value of a variable that a specification does not use.
Off == "off"

NoExc == [type |-> "none", filename |-> NoPath]
Exc(type) == [type |-> type, filename |-> NoPath]
NoArgs == [key |-> PyNone, compress |-> FALSE, delete |-> FALSE, dry |-> FALSE]
NoFiles == [p \in {} |-> 0]

\* md.content_hash: the digest the provider reports for the remote file.
ProviderHash == ContentHash(remote.content)

\* Bytes that arrive damaged.
Corrupt(c) == IF c = <<>> THEN <<0>> ELSE [c EXCEPT ![1] = 1 - c[1]]

\* os.path.exists(p), for a file path.
ExistsNever(fs, p) == FALSE
Exists(fs, p) == p \in DOMAIN fs

Remove(fs, p) == [q \in DOMAIN fs \ {p} |-> fs[q]]
Put(fs, p, f) == [q \in DOMAIN fs \cup {p} |-> IF q = p THEN f ELSE fs[q]]

Init ==
    /\ Lochness \in Configs
    /\ remote \in [content : Contents, exists : {TRUE}]
    /\ dirs = {}
    /\ files = NoFiles
    /\ pc = "idle"
    /\ args = NoArgs
    /\ local_fullfile = NoPath
    /\ content = NoContent
    /\ tmp_name = NoPath
    /\ attempts = 0
    /\ exc = NoExc
    /\ outcome = "none"
    /\ fetches = 0
    /\ deletes = 0
    /\ made = {}
    /\ committed = FALSE
    /\ mismatches = 0
    /\ start = [dirs |-> {}, files |-> NoFiles, remote |-> remote]
    /\ again = FALSE
    /\ ncalls = 0
    /\ walk = Off /\ lookup = Off /\ orch = Off /\ procs = Off

\* The call ends: it returned (exc is none) or raised exc.
Finish(how, e) ==
    /\ pc' = "done"
    /\ outcome' = how
    /\ exc' = e

\* An exception is raised inside _save or _delete.
RaiseIn_save(e) ==
    /\ pc' = "except"
    /\ exc' = e
    /\ UNCHANGED outcome

\* save, lines 124-136: the local path, and the early return when it exists.
SaveEnter ==
    /\ pc \in {"idle", "done"}
    /\ ncalls < MaxCalls
    /\ \E key \in Keys, compress \in BOOLEAN, dry \in BOOLEAN :
         LET delete == delete_on_success(Lochness, Module)
             path == LocalFullfile(OutBase, BoxPathName, key, compress)
             call == [key |-> key, compress |-> compress, delete |-> delete, dry |-> dry]
         IN /\ args' = call
            /\ again' = (pc = "done" /\ outcome = "Saved" /\ call = args)
            /\ local_fullfile' = path
            /\ IF Exists(files, path)
               THEN Finish("Skipped", NoExc)
               ELSE pc' = "checkdir" /\ outcome' = "none" /\ exc' = NoExc
    /\ ncalls' = ncalls + 1
    /\ start' = [dirs |-> dirs, files |-> files, remote |-> remote]
    /\ content' = NoContent
    /\ tmp_name' = NoPath
    /\ attempts' = 0
    /\ fetches' = 0
    /\ deletes' = 0
    /\ made' = {}
    /\ committed' = FALSE
    /\ mismatches' = 0
    /\ UNCHANGED <<others, Lochness, remote, dirs, files>>

\* save, lines 137-138: os.path.exists(local_dirname).
SaveCheckDir ==
    /\ pc = "checkdir"
    /\ pc' = IF local_fullfile.dir \in dirs THEN "dry" ELSE "makedirs"
    /\ UNCHANGED <<others, Lochness, remote, dirs, files, args, local_fullfile, content,
                   tmp_name, attempts, exc, outcome, fetches, deletes, made,
                   committed, mismatches, start, again, ncalls>>

\* save, line 139: os.makedirs(local_dirname), which raises when it exists.
SaveMakedirs ==
    /\ pc = "makedirs"
    /\ IF local_fullfile.dir \in dirs
       THEN Finish("Raised", Exc("FileExistsError")) /\ UNCHANGED dirs
       ELSE /\ dirs' = dirs \cup Ancestors(local_fullfile.dir)
            /\ pc' = "dry"
            /\ UNCHANGED <<exc, outcome>>
    /\ UNCHANGED <<others, Lochness, remote, files, args, local_fullfile, content,
                   tmp_name, attempts, fetches, deletes, made, committed,
                   mismatches, start, again, ncalls>>

\* save, lines 141-143: a dry run stops; otherwise _save is called, which
\* enters hash_retry's f with attempts = 1 (line 156).
SaveDryCheck ==
    /\ pc = "dry"
    /\ IF args.dry
       THEN Finish("DryRun", NoExc) /\ UNCHANGED attempts
       ELSE pc' = "hash_retry" /\ attempts' = 1 /\ UNCHANGED <<exc, outcome>>
    /\ UNCHANGED <<others, Lochness, remote, dirs, files, args, local_fullfile, content,
                   tmp_name, fetches, deletes, made, committed, mismatches,
                   start, again, ncalls>>

\* hash_retry, lines 157-159 and 165: another attempt, or HashRetryError.
HashRetryLoop ==
    /\ pc = "hash_retry"
    /\ IF attempts <= HashRetryN
       THEN pc' = "content" /\ UNCHANGED <<exc, outcome>>
       ELSE pc' = "except" /\ exc' = Exc("HashRetryError") /\ UNCHANGED outcome
    /\ UNCHANGED <<others, Lochness, remote, dirs, files, args, local_fullfile, content,
                   tmp_name, attempts, fetches, deletes, made, committed,
                   mismatches, start, again, ncalls>>

\* What box_file_object.content() can do: return the remote bytes, return
\* damaged bytes, or raise (a dropbox ApiError for a missing path, any other
\* dropbox ApiError, or the Box SDK's own exception, with status 404 when the
\* file is not there).
FetchResults ==
    {"ok", "corrupt", "ApiError_not_found", "ApiError_other", "BoxAPIException",
     "BoxAPIException_404"}
\* The Box SDK's exception for a remote file that is not there.
BoxNotFound == "BoxAPIException(status=404)"

\* _save, lines 188-197: the content fetch and the translation of its errors.
SaveContent ==
    /\ pc = "content"
    /\ fetches' = fetches + 1
    /\ \E r \in FetchResults :
         CASE r = "ok" ->
                /\ remote.exists
                /\ content' = remote.content
                /\ pc' = "savetemp"
                /\ UNCHANGED <<exc, outcome>>
           [] r = "corrupt" ->
                /\ remote.exists
                /\ content' = Corrupt(remote.content)
                /\ pc' = "savetemp"
                /\ UNCHANGED <<exc, outcome>>
           [] r = "ApiError_not_found" ->
                RaiseIn_save(Exc("DownloadError")) /\ UNCHANGED content
           [] r = "ApiError_other" ->
                RaiseIn_save(Exc("ApiError")) /\ UNCHANGED content
           [] r = "BoxAPIException_404" ->
                RaiseIn_save(Exc(BoxNotFound)) /\ UNCHANGED content
           [] OTHER ->
                RaiseIn_save(Exc("BoxAPIException")) /\ UNCHANGED content
    /\ UNCHANGED <<others, Lochness, remote, dirs, files, args, local_fullfile, tmp_name,
                   attempts, deletes, made, committed, mismatches, start, again, ncalls>>

\* The first temp name not in use in the directory.
FreshTemp(dirname) ==
    TempPath(dirname,
             CHOOSE n \in 1..(Cardinality(DOMAIN files) + 1) :
                /\ TempPath(dirname, n) \notin DOMAIN files
                /\ \A m \in 1..(n - 1) : TempPath(dirname, m) \in DOMAIN files)

\* Where _savetemp creates its file: in local_dirname, under a temp name.
SaveTempInPlace(dirname, final) == final
SaveTempTarget(dirname, final) == FreshTemp(dirname)

\* _save, lines 198-209, and _savetemp, lines 224-228: the temp file is
\* created, empty and private, in the destination directory.
SaveTempCreate ==
    /\ pc = "savetemp"
    /\ \E ok \in BOOLEAN :
         IF ok
         THEN LET t == SaveTempTarget(local_fullfile.dir, local_fullfile)
              IN /\ tmp_name' = t
                 /\ files' = Put(files, t, [data |-> <<>>, mode |-> "0600", complete |-> FALSE])
                 /\ made' = made \cup {t}
                 /\ pc' = "write"
                 /\ UNCHANGED <<exc, outcome>>
         ELSE /\ RaiseIn_save(Exc("OSError"))
              /\ UNCHANGED <<tmp_name, files, made>>
    /\ UNCHANGED <<others, Lochness, remote, dirs, args, local_fullfile, content, attempts,
                   fetches, deletes, committed, mismatches, start, again, ncalls>>

\* _savetemp, lines 234-239: write, flush, fsync, close.  A failure leaves
\* the bytes written so far.
SaveTempWrite ==
    /\ pc = "write"
    /\ LET bytes == SaveTempBytes(SaveTempArg(content, args.key), args.compress)
       IN \E ok \in BOOLEAN :
            IF ok
            THEN /\ files' = [files EXCEPT ![tmp_name].data = bytes,
                                           ![tmp_name].complete = TRUE]
                 /\ pc' = "chmod"
                 /\ UNCHANGED <<exc, outcome>>
            ELSE /\ \E k \in 0..(IF bytes = <<>> THEN 0 ELSE Len(bytes) - 1) :
                       files' = [files EXCEPT ![tmp_name].data = SubSeq(bytes, 1, k)]
                 /\ RaiseIn_save(Exc("OSError"))
    /\ UNCHANGED <<others, Lochness, remote, dirs, args, local_fullfile, content, tmp_name,
                   attempts, fetches, deletes, made, committed, mismatches,
                   start, again, ncalls>>

\* _save, lines 211-214: the verify call is commented out; chmod 0644.
SaveChmod ==
    /\ pc = "chmod"
    /\ mismatches' = mismatches +
         (IF verify(files[tmp_name].data, ProviderHash, args.key, args.compress)
          THEN 0 ELSE 1)
    /\ \E ok \in BOOLEAN :
         IF ok
         THEN /\ files' = [files EXCEPT ![tmp_name].mode = "0644"]
              /\ pc' = "rename"
              /\ UNCHANGED <<exc, outcome>>
         ELSE RaiseIn_save(Exc("OSError")) /\ UNCHANGED files
    /\ UNCHANGED <<others, Lochness, remote, dirs, args, local_fullfile, content, tmp_name,
                   attempts, fetches, deletes, made, committed, start, again, ncalls>>

\* os.rename(src, dst): dst takes src's file and src is gone.
RenameCopies(fs, src, dst) == Put(fs, dst, fs[src])
Rename(fs, src, dst) == Remove(Put(fs, dst, fs[src]), src)

\* _save, line 215: the rename into place; _save then returns to save.
SaveRename ==
    /\ pc = "rename"
    /\ \E ok \in BOOLEAN :
         IF ok
         THEN /\ files' = Rename(files, tmp_name, local_fullfile)
              /\ committed' = TRUE
              /\ pc' = "delete"
              /\ UNCHANGED <<exc, outcome>>
         ELSE RaiseIn_save(Exc("OSError")) /\ UNCHANGED <<files, committed>>
    /\ UNCHANGED <<others, Lochness, remote, dirs, args, local_fullfile, content, tmp_name,
                   attempts, fetches, deletes, made, mismatches, start, again, ncalls>>

\* What box_file_object.delete() can do.
DeleteResults == {"ok", "ApiError", "BoxAPIException"}

\* save, lines 144-146, and _delete, lines 174-178.
SaveDelete ==
    /\ pc = "delete"
    /\ IF args.delete
       THEN /\ deletes' = deletes + 1
            /\ \E r \in DeleteResults :
                 CASE r = "ok" ->
                        /\ remote' = [remote EXCEPT !.exists = FALSE]
                        /\ Finish("Saved", NoExc)
                   [] r = "ApiError" ->
                        /\ pc' = "except"
                        /\ exc' = Exc("DeletionError")
                        /\ UNCHANGED <<remote, outcome>>
                   [] OTHER ->
                        /\ pc' = "except"
                        /\ exc' = Exc("BoxAPIException")
                        /\ UNCHANGED <<remote, outcome>>
       ELSE Finish("Saved", NoExc) /\ UNCHANGED <<deletes, remote>>
    /\ UNCHANGED <<others, Lochness, dirs, files, args, local_fullfile, content, tmp_name,
                   attempts, fetches, made, committed, mismatches, start, again, ncalls>>

\* An exception on its way out.  hash_retry, lines 160-164: a BoxHashError
\* costs an attempt and removes the file it names.  Anything else leaves f
\* and reaches save, lines 147-149: HashRetryError becomes DownloadError and
\* every other exception leaves save as it is.
SaveExcept ==
    /\ pc = "except"
    /\ IF exc.type = "BoxHashError"
       THEN /\ attempts' = attempts + 1
            /\ files' = Remove(files, exc.filename)
            /\ exc' = NoExc
            /\ pc' = "hash_retry"
            /\ UNCHANGED outcome
       ELSE /\ Finish("Raised",
                      IF exc.type = "HashRetryError" THEN Exc("DownloadError") ELSE exc)
            /\ UNCHANGED <<attempts, files>>
    /\ UNCHANGED <<others, Lochness, remote, dirs, args, local_fullfile, content, tmp_name,
                   fetches, deletes, made, committed, mismatches, start, again, ncalls>>

Next ==
    \/ SaveEnter
    \/ SaveCheckDir
    \/ SaveMakedirs
    \/ SaveDryCheck
    \/ HashRetryLoop
    \/ SaveContent
    \/ SaveTempCreate
    \/ SaveTempWrite
    \/ SaveChmod
    \/ SaveRename
    \/ SaveDelete
    \/ SaveExcept

Spec == Init /\ [][Next]_vars

\* ----------------------------------------------------------------- claims
\* The temp files of the running call that are still there.
StrayTemps == made \cap DOMAIN files
\* The bytes the running call's temp file is to hold.
CallBytes == SaveTempBytes(SaveTempArg(content, args.key), args.compress)
\* _save has ended: it returned to save, or an exception left it.
SaveInnerDone == pc = "delete" \/ (pc = "except" /\ deletes = 0)
\* The value configured under box / module / delete_on_success is `v`.
Configured(v) ==
    /\ "box" \in DOMAIN Lochness
    /\ Module \in DOMAIN Lochness["box"]
    /\ "delete_on_success" \in DOMAIN Lochness["box"][Module]
    /\ Lochness["box"][Module]["delete_on_success"] = v

\* C1 (part): every file at a final (non-temp) path was written to the end,
\* and the one the running call committed holds all the bytes of its content.
FinalFilesComplete ==
    /\ \A p \in DOMAIN files : ~IsTemp(p) => files[p].complete
    /\ committed => files[local_fullfile].data = CallBytes
\* C1 (part): a final path appears or changes only in the rename step, and
\* then it is local_fullfile.
OnlyRenameCommits ==
    \A p \in DOMAIN files' :
        (~IsTemp(p) /\ (p \notin DOMAIN files \/ files'[p] # files[p]))
            => (pc = "rename" /\ p = local_fullfile)
\* C1: atomicity of save.  In every reachable state, faults at any step
\* included, local_fullfile is absent or complete; partial bytes exist only
\* under a temp name; the rename is the only step that makes anything appear
\* at a final path.
C1_Atomicity == []FinalFilesComplete /\ [][OnlyRenameCommits]_vars
\* C1 witness: a write failed half way; the partial bytes sit under the temp
\* name and local_fullfile is absent.
C1_Witness ==
    /\ pc = "done" /\ exc.type = "OSError"
    /\ local_fullfile \notin DOMAIN files
    /\ \E t \in StrayTemps : ~files[t].complete /\ files[t].data # <<>>

\* C2: integrity before commit.  A file is committed at local_fullfile only
\* if the hash of its persisted bytes equals the provider-reported hash.
C2_IntegrityBeforeCommit ==
    committed => verify(files[local_fullfile].data, ProviderHash, args.key, args.compress)

\* C3: retry bound.  When verification finds a mismatch on every attempt (and
\* nothing else fails), _save makes exactly 3 attempts, then raises
\* HashRetryError, and none of its temp files remains.
C3_RetryBound ==
    (/\ SaveInnerDone
     /\ exc.type \in {"none", "HashRetryError"}
     /\ fetches >= 1
     /\ mismatches = fetches)
        => (/\ fetches = HashRetryN
            /\ exc.type = "HashRetryError"
            /\ StrayTemps = {})

\* C4: idempotence of save.  A call that repeats the inputs of a call that
\* saved returns at once: no fetch, no write, no rename, no delete, and the
\* local filesystem and the remote store are as the call found them.
C4_Idempotence ==
    again => (/\ pc = "done" /\ outcome = "Skipped" /\ exc = NoExc
              /\ fetches = 0 /\ deletes = 0 /\ made = {} /\ ~committed
              /\ files = start.files /\ dirs = start.dirs /\ remote = start.remote)
\* C4 witness: the second of two identical calls has returned, skipped, with
\* the file the first one committed in place.
C4_Witness ==
    /\ again /\ pc = "done" /\ outcome = "Skipped"
    /\ ncalls = 2 /\ ~args.dry /\ local_fullfile \in DOMAIN files

\* C5: a dry run has no effect.  A call with dry=True creates no directory
\* and no file, fetches nothing and deletes nothing.
C5_DryRunNoEffect ==
    args.dry => (/\ dirs = start.dirs /\ files = start.files /\ remote = start.remote
                 /\ fetches = 0 /\ deletes = 0)

\* C6: deletion gating.  With the delete flag taken from delete_on_success,
\* a remote delete is issued only when the configured value is the boolean
\* True.
C6_DeletionGating ==
    (deletes > 0 \/ ~remote.exists \/ args.delete) => Configured(PyBool(TRUE))
\* C6 witness: the value is the string 'true'; the save succeeded and no
\* delete was issued.
C6_Witness ==
    /\ Configured(PyStr("true"))
    /\ pc = "done" /\ outcome = "Saved" /\ committed
    /\ deletes = 0 /\ remote.exists

\* C7: delete only after a verified commit.  A remote delete call is
\* preceded, in the same call, by a successful hash verification and the
\* rename into place.
C7_DeleteAfterVerifiedCommit ==
    deletes > 0 =>
        (/\ committed
         /\ local_fullfile \in DOMAIN files
         /\ verify(files[local_fullfile].data, ProviderHash, args.key, args.compress))

\* C8 as stated: after any terminal outcome, success or failure, no temp file
\* of the call remains.
C8_NoStrayTemp == pc = "done" => StrayTemps = {}
\* C8 as amended: after a terminal outcome a temp file of the call remains
\* exactly when the call created one and ended before renaming it (a failure
\* at write, chmod or rename); after a success it has been renamed to
\* local_fullfile.
C8_NoStrayTempOnceRenamed ==
    pc = "done" =>
        /\ (StrayTemps = {}) <=> (made = {} \/ committed)
        /\ outcome = "Saved" => (committed /\ made # {} /\ local_fullfile \in DOMAIN files)
\* C8 witness: a call has saved; it made a temp file and none is left.
C8_Witness == pc = "done" /\ outcome = "Saved" /\ made # {} /\ StrayTemps = {}

\* C9: encrypt-then-store.  With an encryption key the bytes in the temp file
\* and at the destination are the encrypted content (compressed if asked);
\* with a null key they are the content (compressed if asked).  (The empty
\* key, which save treats as no key, is left out.)
C9_EncryptThenStore ==
    LET plain == IF Truthy(args.key) THEN Encrypt(content, args.key) ELSE content
        stored == IF args.compress THEN Gzip(plain) ELSE plain
    IN args.key # "" =>
         /\ pc \in {"chmod", "rename"} => files[tmp_name].data = stored
         /\ committed => files[local_fullfile].data = stored

\* The local path with '.lock' when `locked` and then '.gz' when `gz`.
ExpectedPath(locked, gz) ==
    [dir |-> OutBase,
     name |-> <<BoxPathName>> \o (IF locked THEN <<".lock">> ELSE <<>>)
                              \o (IF gz THEN <<".gz">> ELSE <<>>)]
\* C10 as stated: local_fullfile is the joined name, then '.lock' exactly
\* when key is non-null, then '.gz' exactly when compress is true.
C10_ExtensionOrdering ==
    ncalls >= 1 => local_fullfile = ExpectedPath(args.key # PyNone, args.compress)
\* C10 as amended: '.lock' exactly when key is truthy (neither None nor the
\* empty string), then '.gz' exactly when compress is true; the file a call
\* commits is at that path.
C10_ExtensionOrderingTruthy ==
    ncalls >= 1 =>
        /\ local_fullfile = ExpectedPath(args.key \notin {PyNone, ""}, args.compress)
        /\ committed => local_fullfile \in DOMAIN files
        /\ \A p \in DOMAIN files :
              ~IsTemp(p) => \E l \in BOOLEAN, g \in BOOLEAN : p = ExpectedPath(l, g)
\* C10 witness: key and compress both set, and the file is committed at
\* <name>.lock.gz.
C10_Witness ==
    /\ args.key = "pw" /\ args.compress /\ committed
    /\ local_fullfile.name = <<BoxPathName, ".lock", ".gz">>
    /\ local_fullfile \in DOMAIN files

\* C12: deletion failure outcome.  When the remote delete fails after the
\* commit, save ends with DeletionError and no other error, and the committed
\* file is still at local_fullfile, unchanged.
C12_DeletionFailure ==
    (pc = "done" /\ deletes > 0 /\ remote.exists) =>
        (/\ exc.type = "DeletionError"
         /\ committed
         /\ local_fullfile \in DOMAIN files
         /\ files[local_fullfile].data = CallBytes)

C14_OnlyHashMismatchRetried ==
    pc = "done" =>
        /\ exc.type \notin {"none", "HashRetryError"} => (attempts <= 1 /\ fetches <= 1)
        /\ (content = NoContent /\ exc.type \in {"DownloadError", BoxNotFound})
              => (exc.type = "DownloadError" /\ fetches = 1)

\* C19 (part): a call that finds a file at its local_fullfile returns at
\* once: no fetch, no delete, nothing changed locally or remotely.
SkipsCommitted ==
    (ncalls >= 1 /\ local_fullfile \in DOMAIN start.files) =>
        (/\ pc = "done" /\ outcome = "Skipped"
         /\ fetches = 0 /\ deletes = 0 /\ ~committed
         /\ files = start.files /\ remote = start.remote)
\* C19 (part): no step changes or removes a file at a final path, so each
\* local path is renamed into at most once.
FinalFilesFrozen ==
    \A p \in DOMAIN files :
        ~IsTemp(p) => (p \in DOMAIN files' /\ files'[p] = files[p])
\* C19: a committed local file is never touched again.  Every later call
\* that resolves to the same local_fullfile, whatever its key, delete or dry
\* value, leaves it unchanged and neither fetches nor deletes; a remote
\* deletion that failed after the commit is not attempted again.
C19_CommittedNeverTouched == []SkipsCommitted /\ [][FinalFilesFrozen]_vars
\* C19 witness: the file was committed and its remote deletion failed; a
\* later call with delete=True is skipped and the remote file is still there.
C19_Witness ==
    /\ pc = "done" /\ outcome = "Skipped" /\ ~again
    /\ args.delete /\ remote.exists /\ deletes = 0
    /\ local_fullfile \in DOMAIN files

\* =================================================== FolderResolver
\* Longest listing of the parent folder.
MaxListing == 2

\* The types and names of the entries of a Box folder.
EntryTypes == {"folder", "file", "web_link"}
EntryNames == {"PHOENIX", "phoenix", "GENERAL"}
\* A listing: a sequence of entries, each with its own id.
ListingsOf(n) ==
    {[i \in 1..n |-> [type |-> t[i], name |-> nm[i], id |-> i]] :
        t \in [1..n -> EntryTypes], nm \in [1..n -> EntryNames]}
Listings == UNION {ListingsOf(n) : n \in 0..MaxListing}
\* Python's None, as a returned object.
NoObject == [type |-> "NoneType", name |-> "", id |-> 0]
\* The default box_path_id.
RootId == "0"

\* The for loop of get_box_object_based_on_name over get_items(): the first
\* entry that is a folder with the name, or None when the loop ends.
RECURSIVE FirstNamed(_, _)
FirstNamed(items, box_folder_name) ==
    IF items = <<>> THEN NoObject
    ELSE IF Head(items).name = box_folder_name THEN Head(items)
    ELSE FirstNamed(Tail(items), box_folder_name)
RECURSIVE FirstFolderNamed(_, _)
FirstFolderNamed(items, box_folder_name) ==
    IF items = <<>> THEN NoObject
    ELSE IF Head(items).type = "folder" /\ Head(items).name = box_folder_name
         THEN Head(items)
    ELSE FirstFolderNamed(Tail(items), box_folder_name)

\* Every variable of save at rest.
SaveOff ==
    /\ Lochness = EmptyDict
    /\ remote = [content |-> <<>>, exists |-> TRUE]
    /\ files = NoFiles
    /\ pc = "idle"
    /\ args = NoArgs
    /\ local_fullfile = NoPath
    /\ content = NoContent
    /\ tmp_name = NoPath
    /\ attempts = 0
    /\ exc = NoExc
    /\ outcome = "none"
    /\ fetches = 0
    /\ deletes = 0
    /\ made = {}
    /\ committed = FALSE
    /\ mismatches = 0
    /\ start = [dirs |-> {}, files |-> NoFiles, remote |-> remote]
    /\ again = FALSE
    /\ ncalls = 0

InitLookup ==
    /\ SaveOff /\ dirs = {}
    /\ walk = Off /\ orch = Off /\ procs = Off
    /\ lookup \in [pc : {"call"}, items : Listings, name : EntryNames,
                   result : {NoObject}, listed : {<<>>}]

\* get_box_object_based_on_name(client, box_folder_name, box_path_id): one
\* get_items() on the parent, and the scan of what it lists.
LookupCall ==
    /\ lookup.pc = "call"
    /\ lookup' = [lookup EXCEPT
                    !.pc = "returned",
                    !.listed = Append(lookup.listed, RootId),
                    !.result = FirstFolderNamed(lookup.items, lookup.name)]
    /\ UNCHANGED <<saveVars, dirs, walk, orch, procs>>

NextLookup == LookupCall
SpecLookup == InitLookup /\ [][NextLookup]_vars

\* The positions of the listing that hold a folder with the name sought.
Matches == {i \in 1..Len(lookup.items) :
               lookup.items[i].type = "folder" /\ lookup.items[i].name = lookup.name}
MaxNodes == 3

\* The folder object the walk is called with, and a parent outside its tree.
WalkFolder == 0
Outside == -1
\* The root argument of the walk, as path components.
WalkRoot == <<"box">>
Nodes == 1..MaxNodes
\* The remote trees: every entry has a type and a parent that is a folder
\* (the walked one, another entry, or one outside); a folder lists its
\* children in ascending or in descending order of id.
Trees ==
    {t \in [parent : [Nodes -> {Outside, WalkFolder} \cup Nodes],
            type : [Nodes -> EntryTypes],
            rev : BOOLEAN] :
        \A i \in Nodes :
            /\ t.parent[i] < i
            /\ t.parent[i] \in Nodes => t.type[t.parent[i]] = "folder"}
EntryName(i) == ToString(i)

\* box_folder_object.get_items(): the children of a folder, in listing order.
RECURSIVE Ascending(_, _, _)
Ascending(t, f, i) ==
    IF i > MaxNodes THEN <<>>
    ELSE (IF t.parent[i] = f THEN <<i>> ELSE <<>>) \o Ascending(t, f, i + 1)
Reverse(seq) == [i \in 1..Len(seq) |-> seq[Len(seq) + 1 - i]]
GetItems(t, f) == IF t.rev THEN Reverse(Ascending(t, f, 1)) ELSE Ascending(t, f, 1)

\* The test of the loop over get_items(): folders go to box_folder_objects,
\* every other entry to box_file_objects.
IsFileOnly(type) == type = "file"
IsFolderEntry(type) == type = "folder"
IsFileEntry(type) == type # "folder"
RECURSIVE FolderObjects(_, _)
FolderObjects(t, items) ==
    IF items = <<>> THEN <<>>
    ELSE (IF IsFolderEntry(t.type[Head(items)]) THEN <<Head(items)>> ELSE <<>>)
            \o FolderObjects(t, Tail(items))
RECURSIVE FileObjects(_, _)
FileObjects(t, items) ==
    IF items = <<>> THEN <<>>
    ELSE (IF IsFileEntry(t.type[Head(items)]) THEN <<Head(items)>> ELSE <<>>)
            \o FileObjects(t, Tail(items))

\* The get_items() calls one start of a generator body makes.
ListingCallsPrefetch(t, f) == <<f>> \o FolderObjects(t, GetItems(t, f))
ListingCalls(t, f) == <<f>>
\* The folder the loop over box_folder_objects takes next.
NextFolderBackwards(frame) == frame.folders[Len(frame.folders) - frame.k]
NextFolder(frame) == frame.folders[frame.k + 1]
\* os.path.join(root, box_dir_object.name)
JoinPath(root, name) == Append(root, name)

\* A generator of walk_from_folder_object: its arguments, its two lists, and
\* where it is suspended.
Frame(root, id) ==
    [root |-> root, id |-> id, at |-> "list", folders |-> <<>>, files |-> <<>>, k |-> 0]

InitWalk ==
    /\ SaveOff /\ dirs = {}
    /\ lookup = Off /\ orch = Off /\ procs = Off
    /\ \E t \in Trees :
          walk = [tree |-> t, stack |-> <<Frame(WalkRoot, WalkFolder)>>,
                  turn |-> "consumer", yielded |-> <<>>, listed |-> <<>>,
                  work |-> 0, done |-> FALSE]

Top == walk.stack[Len(walk.stack)]
SetTop(frame) == [walk.stack EXCEPT ![Len(walk.stack)] = frame]
Pop == SubSeq(walk.stack, 1, Len(walk.stack) - 1)
Running == walk.turn = "generator"
Keep == UNCHANGED <<saveVars, dirs, lookup, orch, procs>>

\* The consumer asks for the next triple: the innermost generator resumes.
ConsumerNext ==
    /\ walk.turn = "consumer" /\ ~walk.done
    /\ walk' = [walk EXCEPT !.turn = "generator"]
    /\ Keep

\* The consumer handles one more file of the triple it holds.
ConsumerWork ==
    /\ walk.turn = "consumer" /\ walk.yielded # <<>>
    /\ walk.work < Len(walk.yielded[Len(walk.yielded)].files)
    /\ walk' = [walk EXCEPT !.work = @ + 1]
    /\ Keep

\* Lines 102-108: list the folder and fill the two lists.
WalkList ==
    /\ Running /\ Top.at = "list"
    /\ LET items == GetItems(walk.tree, Top.id) IN
       walk' = [walk EXCEPT
                  !.listed = @ \o ListingCalls(walk.tree, Top.id),
                  !.stack = SetTop([Top EXCEPT
                                      !.at = "yield",
                                      !.folders = FolderObjects(walk.tree, items),
                                      !.files = FileObjects(walk.tree, items)])]
    /\ Keep

\* Line 110, passed up through line 115 of every enclosing generator: the
\* triple reaches the consumer and the generators stay suspended.
WalkYield ==
    /\ Running /\ Top.at = "yield"
    /\ walk' = [walk EXCEPT
                  !.yielded = Append(@, [root |-> Top.root, id |-> Top.id,
                                         folders |-> Top.folders, files |-> Top.files]),
                  !.stack = SetTop([Top EXCEPT !.at = "loop"]),
                  !.work = 0,
                  !.turn = "consumer"]
    /\ Keep

\* Lines 112-114: the loop takes the next subfolder and starts its generator.
WalkDescend ==
    /\ Running /\ Top.at = "loop" /\ Top.k < Len(Top.folders)
    /\ LET box_dir_object == NextFolder(Top)
           new_root == JoinPath(Top.root, EntryName(box_dir_object)) IN
       walk' = [walk EXCEPT
                  !.stack = Append(SetTop([Top EXCEPT !.k = @ + 1]),
                                   Frame(new_root, box_dir_object))]
    /\ Keep

\* The loop over box_folder_objects is over: the generator ends, and the
\* enclosing one goes on; the end of the outermost one ends the walk.
WalkReturn ==
    /\ Running /\ Top.at = "loop" /\ Top.k = Len(Top.folders)
    /\ walk' = [walk EXCEPT
                  !.stack = Pop,
                  !.done = (Len(walk.stack) = 1),
                  !.turn = IF Len(walk.stack) = 1 THEN "consumer" ELSE "generator"]
    /\ Keep

NextWalk ==
    \/ ConsumerNext
    \/ ConsumerWork
    \/ WalkList
    \/ WalkYield
    \/ WalkDescend
    \/ WalkReturn
SpecWalk == InitWalk /\ [][NextWalk]_vars
\* A walk consumed to the end: the consumer keeps asking.
SpecWalkConsumed == SpecWalk /\ WF_vars(NextWalk)

\* What the walk was given and what it has yielded so far.
T == walk.tree
Y == walk.yielded
\* x is the entry s or lies below it.
RECURSIVE Within(_, _, _)
Within(t, s, x) ==
    IF x = s THEN TRUE
    ELSE IF x \in {WalkFolder, Outside} THEN FALSE
    ELSE Within(t, s, t.parent[x])
\* The folders of the tree under the walked folder, itself included.
ReachableFolders ==
    {WalkFolder} \cup {i \in Nodes : T.type[i] = "folder" /\ Within(T, WalkFolder, i)}
YieldedBefore(f, i) == \E j \in 1..(i - 1) : Y[j].id = f
Before(seq, a, b) == \E p, q \in 1..Len(seq) : p < q /\ seq[p] = a /\ seq[q] = b
Count(seq, x) == Cardinality({p \in 1..Len(seq) : seq[p] = x})

\* C11: the walk is pre-order depth-first.  The walked folder comes first
\* under the root path it was given; the triple of any other folder comes
\* after its parent's, under the parent's path joined with the folder's name,
\* and after the triples of all its ancestors; and when a folder is listed
\* before a sibling folder, every folder of its subtree is yielded before
\* any folder of the sibling's subtree.
C11_PreOrder ==
    \A i \in 1..Len(Y) :
        LET f == Y[i].id IN
        /\ f = WalkFolder => (i = 1 /\ Y[i].root = WalkRoot)
        /\ f # WalkFolder =>
              \E j \in 1..(i - 1) :
                  /\ Y[j].id = T.parent[f]
                  /\ Y[i].root = Append(Y[j].root, EntryName(f))
        /\ \A a \in ReachableFolders : (a # f /\ Within(T, a, f)) => YieldedBefore(a, i)
        /\ \A s1, s2 \in ReachableFolders \ {WalkFolder} :
              (/\ T.parent[s1] = T.parent[s2]
               /\ Before(GetItems(T, T.parent[s1]), s1, s2)
               /\ Within(T, s2, f))
              => \A d \in ReachableFolders : Within(T, s1, d) => YieldedBefore(d, i)
\* C11 witness: a finished walk of a folder that lists a later-created
\* subfolder first; that subfolder's own subfolder is yielded third and the
\* earlier-created sibling last.
C11_Witness ==
    /\ walk.done /\ Len(Y) = 4 /\ T.rev
    /\ T.parent[Y[2].id] = WalkFolder /\ T.parent[Y[3].id] = Y[2].id
    /\ T.parent[Y[4].id] = WalkFolder /\ Y[4].id < Y[2].id

\* C17: the walk is lazy.  Whenever the consumer holds control (it has just
\* received a triple, or is working on that triple's files), the listing
\* calls made so far are exactly one per yielded folder, in the order of the
\* yields; while the generator runs for the consumer's request, at most the
\* one folder whose triple is being produced has been listed in addition.
C17_Lazy ==
    /\ Len(walk.listed) >= Len(Y)
    /\ \A i \in 1..Len(Y) : walk.listed[i] = Y[i].id
    /\ walk.turn = "consumer" => Len(walk.listed) = Len(Y)
    /\ walk.turn = "generator" => Len(walk.listed) <= Len(Y) + 1
\* C17 witness: the consumer is working on the files of the second triple
\* while a folder of the tree has not been listed yet.
C17_Witness ==
    /\ walk.turn = "consumer" /\ ~walk.done /\ Len(Y) = 2 /\ walk.work >= 1
    /\ \E f \in ReachableFolders : \A i \in 1..Len(walk.listed) : walk.listed[i] # f

\* Every yielded triple holds each child of its folder once: in the
\* subfolders list when it is a folder, in the files list otherwise, and both
\* lists in listing order.
TriplesComplete ==
    \A i \in 1..Len(Y) :
        LET f == Y[i].id
            items == GetItems(T, f) IN
        /\ \A c \in Nodes :
              /\ Count(Y[i].folders, c) =
                    (IF T.parent[c] = f /\ T.type[c] = "folder" THEN 1 ELSE 0)
              /\ Count(Y[i].files, c) =
                    (IF T.parent[c] = f /\ T.type[c] # "folder" THEN 1 ELSE 0)
        /\ \A p, q \in 1..Len(Y[i].folders) :
              p < q => Before(items, Y[i].folders[p], Y[i].folders[q])
        /\ \A p, q \in 1..Len(Y[i].files) :
              p < q => Before(items, Y[i].files[p], Y[i].files[q])
\* Every reachable folder has exactly one triple, and nothing else has one.
Covered ==
    /\ \A f \in ReachableFolders : Count([i \in 1..Len(Y) |-> Y[i].id], f) = 1
    /\ \A i \in 1..Len(Y) : Y[i].id \in ReachableFolders
\* C18: coverage of the walk.  A walk consumed to the end ends; when it has
\* ended it has yielded exactly one triple for the walked folder and for
\* each folder reachable from it; and every triple holds every child of its
\* folder exactly once, in listing order, folders in the subfolders list and
\* everything else in the files list.
C18_Coverage ==
    /\ <>(walk.done)
    /\ [](walk.done => Covered)
    /\ []TriplesComplete
\* C18 witness: a finished walk of three folders or more in which a triple
\* holds a web link among its files.
C18_Witness ==
    /\ walk.done /\ Len(Y) >= 3
    /\ \E i \in 1..Len(Y) : \E p \in 1..Len(Y[i].files) :
          T.type[Y[i].files[p]] = "web_link"

\* ================================================== SyncOrchestrator
\* Longest list of modules of a subject.
MaxModules == 2
\* @net.retry(max_attempts=5)
MaxAttemptsSix == 5 + 1
MaxAttempts == 5

\* The modules the package lochness.box has, and one it has not.
KnownModules == {"xnat"}
ModuleNames == KnownModules \cup {"nosuch"}
SubjectBoxes == UNION {[1..n -> ModuleNames] : n \in 0..MaxModules}
\* What a module's own sync does: it returns, fails with a transient
\* failure, or fails otherwise.
ModuleResults == {"ok", "transient", "error"}
\* The retry policy: a transient failure is retried while attempts remain.
MayRetry(n) == n < MaxAttempts

InitSync ==
    /\ SaveOff /\ dirs = {}
    /\ walk = Off /\ lookup = Off /\ procs = Off
    /\ \E box \in SubjectBoxes, dry \in BOOLEAN :
          orch = [box |-> box, dry |-> dry, pc |-> "call", attempts |-> 0,
                  transients |-> 0, i |-> 0, synced |-> 0,
                  result |-> "none", error |-> "none"]
KeepSync == UNCHANGED <<saveVars, dirs, walk, lookup, procs>>

\* The wrapper makes an attempt: the body of sync starts over its modules.
SyncAttempt ==
    /\ orch.pc \in {"call", "retry"}
    /\ orch' = [orch EXCEPT !.pc = "modules", !.attempts = @ + 1, !.i = 1]
    /\ KeepSync

\* One turn of the loop: get(module), then the module's sync.
SyncModule ==
    /\ orch.pc = "modules" /\ orch.i <= Len(orch.box)
    /\ IF orch.box[orch.i] \notin KnownModules
       THEN orch' = [orch EXCEPT !.pc = "done", !.result = "raised",
                                 !.error = "ImportError"]
       ELSE \E r \in ModuleResults :
               CASE r = "ok" ->
                       orch' = [orch EXCEPT !.i = @ + 1, !.synced = @ + 1]
                 [] r = "transient" ->
                       orch' = [orch EXCEPT !.pc = "failed", !.transients = @ + 1]
                 [] r = "error" ->
                       orch' = [orch EXCEPT !.pc = "done", !.result = "raised",
                                            !.error = "Exception"]
    /\ KeepSync

\* The loop is over: sync returns.
SyncReturn ==
    /\ orch.pc = "modules" /\ orch.i > Len(orch.box)
    /\ orch' = [orch EXCEPT !.pc = "done", !.result = "returned"]
    /\ KeepSync

\* The wrapper, on a transient failure: another attempt, or the failure
\* propagates when the attempts are used up.
SyncFailed ==
    /\ orch.pc = "failed"
    /\ IF MayRetry(orch.attempts)
       THEN orch' = [orch EXCEPT !.pc = "retry"]
       ELSE orch' = [orch EXCEPT !.pc = "done", !.result = "raised",
                                 !.error = "transient"]
    /\ KeepSync

NextSync ==
    \/ SyncAttempt
    \/ SyncModule
    \/ SyncReturn
    \/ SyncFailed
SpecSync == InitSync /\ [][NextSync]_vars
\* Every call is run to its end.
SpecSyncRun == SpecSync /\ WF_vars(NextSync)

\* C15: the outer retry is bounded.  sync never makes more than 5 attempts
\* (never a sixth); an attempt is made again only after a transient failure,
\* so a call that returned made one attempt more than it had transient
\* failures; after 5 failed attempts the call ends by raising; and every
\* call ends.
C15_BoundedRetry ==
    /\ [](/\ orch.attempts <= 5
          /\ orch.attempts <= orch.transients + 1
          /\ (orch.pc = "done" /\ orch.result = "returned")
                => orch.attempts = orch.transients + 1
          /\ (orch.pc = "done" /\ orch.transients = 5)
                => (orch.result = "raised" /\ orch.error = "transient"
                    /\ orch.attempts = 5))
    /\ [][orch.pc = "done" => orch' = orch]_vars
    /\ <>(orch.pc = "done")
\* C15 witness: a call that failed five times and raised.
C15_Witness ==
    /\ orch.pc = "done" /\ orch.attempts = 5
    /\ orch.transients = 5 /\ orch.result = "raised"

\* ================================================= Interleaved saves
\* Two processes that call save over one local filesystem.
Procs == {1, 2}
\* The out_base arguments: subject directories under one base.
OutBases == {<<"out", "s1">>, <<"out", "s2">>}
\* The file each process saves.
ProcFile(p) == IF p = 1 THEN "a.txt" ELSE "b.txt"
\* The directories there may be before the calls.
StartDirs == {{}, {<<"out">>}, {<<"out">>, <<"out", "s1">>}}

InitRace ==
    /\ SaveOff
    /\ walk = Off /\ lookup = Off /\ orch = Off
    /\ dirs \in StartDirs
    /\ procs \in [Procs -> [pc : {"idle"}, out_base : OutBases, dry : BOOLEAN,
                            local_fullfile : {NoPath}, exc : {"none"}]]
KeepRace == UNCHANGED <<saveVars, walk, lookup, orch>>

\* save, lines 124-137 in process p: the local path; nothing is there yet.
ProcSave(p) ==
    /\ procs[p].pc = "idle"
    /\ procs' = [procs EXCEPT
                   ![p].local_fullfile =
                       LocalFullfile(procs[p].out_base, ProcFile(p), PyNone, FALSE),
                   ![p].pc = "checkdir"]
    /\ UNCHANGED dirs /\ KeepRace

\* save, line 138 in process p.
ProcCheckDir(p) ==
    /\ procs[p].pc = "checkdir"
    /\ procs' = [procs EXCEPT
                   ![p].pc = IF procs[p].local_fullfile.dir \in dirs
                             THEN "dry" ELSE "makedirs"]
    /\ UNCHANGED dirs /\ KeepRace

\* save, line 139 in process p: os.makedirs(local_dirname), which raises
\* when local_dirname exists by now.
ProcMakedirs(p) ==
    /\ procs[p].pc = "makedirs"
    /\ IF procs[p].local_fullfile.dir \in dirs
       THEN /\ procs' = [procs EXCEPT ![p].pc = "raised",
                                      ![p].exc = "FileExistsError"]
            /\ UNCHANGED dirs
       ELSE /\ dirs' = dirs \cup Ancestors(procs[p].local_fullfile.dir)
            /\ procs' = [procs EXCEPT ![p].pc = "dry"]
    /\ KeepRace

\* save, line 141 in process p: the dry run returns, the other goes on to
\* _save.
ProcDryCheck(p) ==
    /\ procs[p].pc = "dry"
    /\ procs' = [procs EXCEPT ![p].pc = IF procs[p].dry THEN "returned" ELSE "transfer"]
    /\ UNCHANGED dirs /\ KeepRace

NextRace ==
    \/ \E p \in Procs : ProcSave(p)
    \/ \E p \in Procs : ProcCheckDir(p)
    \/ \E p \in Procs : ProcMakedirs(p)
    \/ \E p \in Procs : ProcDryCheck(p)
SpecRace == InitRace /\ [][NextRace]_vars

\* C20: the check-then-create race is tolerated.  Of two interleaved saves
\* into the same missing directory, neither fails because the other created
\* the directory between its check and its creation: no process ends with
\* FileExistsError, whatever the interleaving.
C20_MakedirsRaceTolerated ==
    \A p \in Procs : procs[p].exc # "FileExistsError"

=============================================================================
